---- MODULE Spec2Model ----
(***************************************************************************)
(* Post repository of the blog (lib/posts.js): getSortedPostsData,         *)
(* getAllPostIds and getPostData over a directory of markdown files.       *)
(*                                                                         *)
(* Strings are sequences of one-character strings, so that the regular     *)
(* expression, the path arithmetic and the string comparison of the code   *)
(* are computed and not assumed.  A JavaScript object is a function from   *)
(* its keys to its values.                                                 *)
(***************************************************************************)
EXTENDS Integers, Sequences, FiniteSets, Bags, TLC

VARIABLES fs, pend, last

vars == <<fs, pend, last>>

(***************************************************************************)
(* Bounds.                                                                 *)
(***************************************************************************)
NumNames == 3       \* how many of the candidate file names may be used
NumNamesConc == 1   \* the same, while files change under running calls
MaxFiles == 3       \* largest number of entries of the posts directory
MaxFilesConc == 1   \* the same, while files change under running calls
NumCallers == 2     \* getPostData calls in flight together

(***************************************************************************)
(* Strings.                                                                *)
(***************************************************************************)
Code ==
  [c \in {".", "/", "-", "0", "1", "2", "3", "a", "b", "c", "d", "m", "s",
          "t", "x"} |->
     CASE c = "-" -> 45 [] c = "." -> 46 [] c = "/" -> 47
       [] c = "0" -> 48 [] c = "1" -> 49 [] c = "2" -> 50 [] c = "3" -> 51
       [] c = "a" -> 97 [] c = "b" -> 98 [] c = "c" -> 99 [] c = "d" -> 100
       [] c = "m" -> 109 [] c = "s" -> 115 [] c = "t" -> 116
       [] c = "x" -> 120]

RECURSIVE StrLess(_, _)
\* s < t of two JavaScript strings: code unit by code unit, a proper prefix
\* is smaller
StrLess(s, t) ==
  IF t = <<>> THEN FALSE
  ELSE IF s = <<>> THEN TRUE
  ELSE IF Code[Head(s)] # Code[Head(t)] THEN Code[Head(s)] < Code[Head(t)]
  ELSE StrLess(Tail(s), Tail(t))

DotMd == <<".", "m", "d">>

EndsWithMd(s) ==
  /\ Len(s) >= 3
  /\ SubSeq(s, Len(s) - 2, Len(s)) = DotMd

\* the last three characters are cut, whatever they are
StripMd_Last3(s) == IF Len(s) >= 3 THEN SubSeq(s, 1, Len(s) - 3) ELSE s

\* fileName.replace(/\.md$/, "")
StripMd(s) == IF EndsWithMd(s) THEN SubSeq(s, 1, Len(s) - 3) ELSE s

RECURSIVE Split(_)
\* the segments of a path string between its "/" separators
Split(s) ==
  IF \A i \in 1..Len(s) : s[i] # "/" THEN <<s>>
  ELSE LET k == CHOOSE i \in 1..Len(s) :
                  s[i] = "/" /\ \A j \in 1..(i - 1) : s[j] # "/"
       IN  <<SubSeq(s, 1, k - 1)>> \o Split(SubSeq(s, k + 1, Len(s)))

RECURSIVE Normalize(_, _)
\* path.normalize over segments: "" and "." vanish, ".." removes the
\* segment before it; acc is the path resolved so far
Normalize(acc, segs) ==
  IF segs = <<>> THEN acc
  ELSE LET h == Head(segs)
       IN  IF h = <<>> \/ h = <<".">> THEN Normalize(acc, Tail(segs))
           ELSE IF h = <<".", ".">> /\ acc # <<>>
                     /\ acc[Len(acc)] # <<".", ".">>
                THEN Normalize(SubSeq(acc, 1, Len(acc) - 1), Tail(segs))
                ELSE Normalize(Append(acc, h), Tail(segs))

\* path.join(dir, str); paths are relative to process.cwd()
PathJoin(dir, str) == Normalize(dir, Split(str))

\* const postsDirectory = path.join(process.cwd(), "posts")
postsDirectory == PathJoin(<<>>, <<"p", "o", "s", "t", "s">>)

(***************************************************************************)
(* The files.                                                              *)
(***************************************************************************)
Date1 == <<"2", "0", "2", "0", "-", "0", "1", "-", "0", "1">>
Date2 == <<"2", "0", "2", "0", "-", "0", "1", "-", "0", "2">>

NameList ==
  << <<"a", ".", "m", "d">>,
     <<"b", ".", "m", "d">>,
     <<"c", ".", "t", "x", "t">>,
     <<"a">>,
     <<"d", ".", "m", "d">> >>

Names == {NameList[i] : i \in 1..NumNames}

\* the names of the files that change while calls run
NamesConc == {NameList[i] : i \in 1..NumNamesConc}

\* a markdown body is a sequence of blocks: a heading (h = 1) or a paragraph
BodyTitle == << [h |-> 1, t |-> "Title"] >>
BodyText == << [h |-> 0, t |-> "Some text."] >>

\* front matter that declares no key
NoData == [k \in {} |-> <<>>]

\* what a file may hold: its front matter parses (fm = "ok") to data, or
\* does not (fm = "bad"); body is the markdown after the front matter
Contents ==
  { [fm |-> "ok", data |-> ("date" :> Date2), body |-> BodyTitle],
    [fm |-> "ok", data |-> ("date" :> Date1), body |-> BodyText],
    [fm |-> "ok",
     data |-> ("id" :> <<"b">>) @@ ("contentHtml" :> <<"x">>),
     body |-> BodyText],
    [fm |-> "bad", data |-> NoData, body |-> <<>>] }

\* the file next to the posts directory, <cwd>/README.md: no front matter
OutsideName == <<"R", "E", "A", "D", "M", "E", ".", "m", "d">>
OutsideFile == [fm |-> "ok", data |-> NoData, body |-> BodyText]

Entries(names) == [name : names, file : Contents]

RECURSIVE ListingsOfLen(_, _)
\* the listings of n entries: file names are unique within a directory
ListingsOfLen(names, n) ==
  IF n = 0 THEN {<<>>}
  ELSE UNION {
         {Append(d, e) :
            e \in {x \in Entries(names) :
                     \A i \in 1..Len(d) : d[i].name # x.name}} :
         d \in ListingsOfLen(names, n - 1)}

\* the listings of a posts directory of at most max entries, in directory
\* order
Listings(names, max) == UNION {ListingsOfLen(names, n) : n \in 0..max}

\* the states of the file system: whether <cwd>/posts exists (dir) and its
\* entries (posts)
FileSystems(names, max) ==
  {[dir |-> TRUE, posts |-> d] : d \in Listings(names, max)}
    \cup {[dir |-> FALSE, posts |-> <<>>]}

(***************************************************************************)
(* fs, gray-matter, remark.  A result is [err, val]: err = "none" and the  *)
(* value returned, or the error thrown.                                    *)
(***************************************************************************)
Ok(v) == [err |-> "none", val |-> v]
Throw(e) == [err |-> e, val |-> <<>>]

\* fs.readdirSync(postsDirectory)
readdirSync(f) ==
  IF f.dir THEN Ok([i \in 1..Len(f.posts) |-> f.posts[i].name])
  ELSE Throw("ENOENT")

\* fs.readFileSync(path, "utf8")
readFileSync(f, path) ==
  IF /\ f.dir
     /\ Len(path) = Len(postsDirectory) + 1
     /\ SubSeq(path, 1, Len(postsDirectory)) = postsDirectory
     /\ \E i \in 1..Len(f.posts) : f.posts[i].name = path[Len(path)]
  THEN LET i == CHOOSE j \in 1..Len(f.posts) :
                   f.posts[j].name = path[Len(path)]
       IN  Ok(f.posts[i].file)
  ELSE IF path = <<OutsideName>> THEN Ok(OutsideFile)
  ELSE Throw("ENOENT")

\* matter(fileContents): { data, content }, or the YAML parser throws
matter(file) ==
  IF file.fm = "ok" THEN Ok([data |-> file.data, content |-> file.body])
  ELSE Throw("YAMLException")

RECURSIVE ToHtml(_)
\* remark().use(html).process(content), then toString()
ToHtml(body) ==
  IF body = <<>> THEN <<>>
  ELSE (IF Head(body).h = 1
        THEN <<"<h1>", Head(body).t, "</h1>", "\n">>
        ELSE <<"<p>", Head(body).t, "</p>", "\n">>) \o ToHtml(Tail(body))

\* { ...base, ...data }: a key of data replaces the same key of base
Spread(base, data) == data @@ base

(***************************************************************************)
(* Array.prototype.sort as V8 performs it on an array shorter than 64      *)
(* elements: the run at the start of the array is found (and reversed when *)
(* it is descending), then the rest is inserted by binary insertion.       *)
(* Arrays are 1-based here; cmp(a, b) is the comparator's number.          *)
(***************************************************************************)
\* a.date < b.date: false when either date is undefined
DateLess(a, b) ==
  /\ "date" \in DOMAIN a
  /\ "date" \in DOMAIN b
  /\ StrLess(a["date"], b["date"])

\* the comparator with its two results exchanged
Compare_Ascending(a, b) == IF DateLess(a, b) THEN -1 ELSE 1

\* (a, b) => { if (a.date < b.date) return 1; else return -1; }
Compare(a, b) == IF DateLess(a, b) THEN 1 ELSE -1

Reverse(s) == [i \in 1..Len(s) |-> s[Len(s) + 1 - i]]

RECURSIVE RunEnd(_, _, _)
\* the last index of the run that starts at 1 and has reached index i
RunEnd(arr, i, descending) ==
  IF i = Len(arr) THEN i
  ELSE LET order == Compare(arr[i + 1], arr[i])
       IN  IF (descending /\ order >= 0) \/ (~descending /\ order < 0)
           THEN i
           ELSE RunEnd(arr, i + 1, descending)

\* CountAndMakeRun: <<array with its first run in order, length of the run>>
CountAndMakeRun(arr) ==
  IF Len(arr) < 2 THEN <<arr, Len(arr)>>
  ELSE LET descending == Compare(arr[2], arr[1]) < 0
           n == RunEnd(arr, 2, descending)
       IN  IF descending
           THEN <<Reverse(SubSeq(arr, 1, n)) \o SubSeq(arr, n + 1, Len(arr)), n>>
           ELSE <<arr, n>>

RECURSIVE InsertionPoint(_, _, _, _)
\* the binary search of BinaryInsertionSort: where pivot goes in
\* arr[left..right-1]
InsertionPoint(arr, pivot, left, right) ==
  IF left >= right THEN left
  ELSE LET mid == left + ((right - left) \div 2)
       IN  IF Compare(pivot, arr[mid]) < 0
           THEN InsertionPoint(arr, pivot, left, mid)
           ELSE InsertionPoint(arr, pivot, mid + 1, right)

\* arr with arr[start] moved to index at, the elements between shifted up
InsertAt(arr, start, at) ==
  SubSeq(arr, 1, at - 1) \o <<arr[start]>> \o SubSeq(arr, at, start - 1)
    \o SubSeq(arr, start + 1, Len(arr))

RECURSIVE BinaryInsertionSort(_, _)
\* arr[1..start-1] is in order; insert arr[start], arr[start+1], ...
BinaryInsertionSort(arr, start) ==
  IF start > Len(arr) THEN arr
  ELSE BinaryInsertionSort(
         InsertAt(arr, start, InsertionPoint(arr, arr[start], 1, start)),
         start + 1)

\* allPostsData.sort(comparator)
Sort(arr) ==
  LET run == CountAndMakeRun(arr)
  IN  BinaryInsertionSort(run[1], run[2] + 1)

(***************************************************************************)
(* lib/posts.js                                                            *)
(***************************************************************************)
\* the callback of fileNames.map in getSortedPostsData
PostSummary(f, fileName) ==
  LET id == StripMd(fileName)
      fullPath == PathJoin(postsDirectory, fileName)
      fileContents == readFileSync(f, fullPath)
      matterResult == IF fileContents.err = "none"
                      THEN matter(fileContents.val)
                      ELSE fileContents
  IN  IF matterResult.err # "none" THEN Throw(matterResult.err)
      ELSE Ok(Spread("id" :> id, matterResult.val.data))

\* getSortedPostsData that lists the .md files only
getSortedPostsData_OnlyMd(f) ==
  LET fileNames == readdirSync(f)
  IN  IF fileNames.err # "none" THEN Throw(fileNames.err)
      ELSE LET md == SelectSeq(fileNames.val, EndsWithMd)
               n == Len(md)
               mapped == [i \in 1..n |-> PostSummary(f, md[i])]
               failed == {i \in 1..n : mapped[i].err # "none"}
           IN  IF failed # {}
               THEN Throw(mapped[CHOOSE i \in failed :
                                   \A j \in failed : i <= j].err)
               ELSE Ok(Sort([i \in 1..n |-> mapped[i].val]))

\* getSortedPostsData that catches the error of a file and leaves the file
\* out of the list
getSortedPostsData_SkipsFailed(f) ==
  LET fileNames == readdirSync(f)
  IN  IF fileNames.err # "none" THEN Throw(fileNames.err)
      ELSE LET IsOk(fileName) == PostSummary(f, fileName).err = "none"
               good == SelectSeq(fileNames.val, IsOk)
           IN  Ok(Sort([i \in 1..Len(good) |-> PostSummary(f, good[i]).val]))

getSortedPostsData(f) ==
  LET fileNames == readdirSync(f)
  IN  IF fileNames.err # "none" THEN Throw(fileNames.err)
      ELSE LET n == Len(fileNames.val)
               mapped == [i \in 1..n |-> PostSummary(f, fileNames.val[i])]
               failed == {i \in 1..n : mapped[i].err # "none"}
           IN  IF failed # {}
               THEN Throw(mapped[CHOOSE i \in failed :
                                   \A j \in failed : i <= j].err)
               ELSE Ok(Sort([i \in 1..n |-> mapped[i].val]))

getAllPostIds(f) ==
  LET fileNames == readdirSync(f)
  IN  IF fileNames.err # "none" THEN Throw(fileNames.err)
      ELSE Ok([i \in 1..Len(fileNames.val) |->
                 [params |-> [id |-> StripMd(fileNames.val[i])]]])

\* getPostData up to its await: the file is read and its front matter parsed
getPostDataRead(f, id) ==
  LET fullPath == PathJoin(postsDirectory, id \o DotMd)
      fileContents == readFileSync(f, fullPath)
  IN  IF fileContents.err # "none" THEN Throw(fileContents.err)
      ELSE matter(fileContents.val)

\* getPostData after its await: the body is converted, the post is built
getPostDataReturn(id, matterResult) ==
  LET contentHtml == ToHtml(matterResult.content)
  IN  Ok(Spread(("id" :> id) @@ ("contentHtml" :> contentHtml),
                matterResult.data))

\* getPostData(id) from its call to its return with nothing run in between,
\* on the files f
getPostDataAlone(f, id) ==
  LET matterResult == getPostDataRead(f, id)
  IN  IF matterResult.err # "none" THEN matterResult
      ELSE getPostDataReturn(id, matterResult.val)

(***************************************************************************)
(* The state: the file system (fs), the getPostData calls suspended at     *)
(* their await (pend, a bag of [id, m, alone]: the argument and the        *)
(* matterResult of the call, and what the call returns on the files of the *)
(* moment it was made when nothing else runs), and the call that completed *)
(* last (last: op, arg, res).                                              *)
(***************************************************************************)
\* the identifiers getPostData is called with
ArgIds ==
  {StripMd(n) : n \in Names}
    \cup { <<"x">>, <<".", ".", "/", "R", "E", "A", "D", "M", "E">> }

NoCall == [op |-> "none", arg |-> <<>>, res |-> Ok(<<>>),
           clean |-> TRUE, again |-> FALSE]

\* the record of a call that completes now.  clean: the files the call read
\* are as it read them; again: the call before it was the same call, and no
\* file changed since
Completed(op, arg, res, clean) ==
  [op |-> op, arg |-> arg, res |-> res, clean |-> clean,
   again |-> (last.op = op /\ last.arg = arg /\ last.clean /\ clean)]

Init ==
  /\ fs \in FileSystems(Names, MaxFiles)
  /\ pend = EmptyBag
  /\ last = NoCall

InitConc ==
  /\ fs \in FileSystems(NamesConc, MaxFilesConc)
  /\ pend = EmptyBag
  /\ last = NoCall

GetSortedPostsData ==
  /\ last' = Completed("getSortedPostsData", <<>>, getSortedPostsData(fs), TRUE)
  /\ UNCHANGED <<fs, pend>>

GetAllPostIds ==
  /\ last' = Completed("getAllPostIds", <<>>, getAllPostIds(fs), TRUE)
  /\ UNCHANGED <<fs, pend>>

\* getPostData(id) awaited by its caller: nothing runs at its await
GetPostData(id) ==
  /\ LET matterResult == getPostDataRead(fs, id)
     IN  last' = Completed("getPostData", id,
                           IF matterResult.err # "none" THEN matterResult
                           ELSE getPostDataReturn(id, matterResult.val),
                           TRUE)
  /\ UNCHANGED <<fs, pend>>

\* getPostData(id) runs to its await, or throws before it
GetPostDataCall(id) ==
  /\ BagCardinality(pend) < NumCallers
  /\ LET matterResult == getPostDataRead(fs, id)
     IN  IF matterResult.err # "none"
         THEN /\ last' = Completed("getPostData", id, matterResult, TRUE)
              /\ UNCHANGED pend
         ELSE /\ pend' = pend (+) SetToBag({[id |-> id, m |-> matterResult.val,
                                             alone |-> getPostDataAlone(fs, id)]})
              /\ UNCHANGED last
  /\ UNCHANGED fs

\* getPostData with matterResult shared by the calls (a variable of the
\* module, not of the call): the post is built from what a call still
\* suspended parsed
GetPostDataResume_SharedMatter(call) ==
  /\ BagIn(call, pend)
  /\ \E other \in BagToSet(pend) :
        last' = Completed("getPostData", call.id,
                          getPostDataReturn(call.id, other.m),
                          getPostDataRead(fs, call.id) = Ok(call.m))
  /\ pend' = pend (-) SetToBag({call})
  /\ UNCHANGED fs

\* getPostData that reads its file after the await, not before it
GetPostDataResume_ReadsAgain(call) ==
  /\ BagIn(call, pend)
  /\ last' = Completed("getPostData", call.id,
                       getPostDataAlone(fs, call.id),
                       getPostDataRead(fs, call.id) = Ok(call.m))
  /\ pend' = pend (-) SetToBag({call})
  /\ UNCHANGED fs

\* the conversion is done: the suspended call returns its post
GetPostDataResume(call) ==
  /\ BagIn(call, pend)
  /\ last' = Completed("getPostData", call.id,
                       getPostDataReturn(call.id, call.m),
                       getPostDataRead(fs, call.id) = Ok(call.m))
  /\ pend' = pend (-) SetToBag({call})
  /\ UNCHANGED fs

\* a file of the posts directory is written out of band; the result held is
\* of files that are no more, and is let go
WriteFile(name, file) ==
  /\ fs.dir
  /\ LET at == {i \in 1..Len(fs.posts) : fs.posts[i].name = name}
         entry == [name |-> name, file |-> file]
     IN  IF at # {}
         THEN fs' = [fs EXCEPT !.posts =
                       [i \in 1..Len(fs.posts) |->
                          IF i \in at THEN entry ELSE fs.posts[i]]]
         ELSE /\ Len(fs.posts) < MaxFilesConc
              /\ fs' = [fs EXCEPT !.posts = Append(fs.posts, entry)]
  /\ fs' # fs
  /\ last' = NoCall
  /\ UNCHANGED pend

\* a file of the posts directory is removed out of band
DeleteFile(name) ==
  /\ fs.dir
  /\ \E i \in 1..Len(fs.posts) :
        /\ fs.posts[i].name = name
        /\ fs' = [fs EXCEPT !.posts =
                    SubSeq(fs.posts, 1, i - 1)
                      \o SubSeq(fs.posts, i + 1, Len(fs.posts))]
  /\ last' = NoCall
  /\ UNCHANGED pend

\* files at rest, every call awaited before the next is made
Next ==
  \/ GetSortedPostsData
  \/ GetAllPostIds
  \/ \E id \in ArgIds : GetPostData(id)

Spec == Init /\ [][Next]_vars

\* calls in flight together, files changing under them
NextConc ==
  \/ GetSortedPostsData
  \/ GetAllPostIds
  \/ \E id \in ArgIds : GetPostDataCall(id)
  \/ \E call \in BagToSet(pend) : GetPostDataResume(call)
  \/ \E name \in NamesConc, file \in Contents : WriteFile(name, file)
  \/ \E name \in NamesConc : DeleteFile(name)

SpecConc == InitConc /\ [][NextConc]_vars

(***************************************************************************)
(* Properties.                                                             *)
(***************************************************************************)
IsListing == last.op = "getSortedPostsData" /\ last.res.err = "none"
IsIds == last.op = "getAllPostIds" /\ last.res.err = "none"
IsPost == last.op = "getPostData" /\ last.res.err = "none"

\* the identifiers getAllPostIds returns for the file system f
ListedIds(f) ==
  LET r == getAllPostIds(f)
  IN  IF r.err = "none" THEN {r.val[i].params.id : i \in 1..Len(r.val)}
      ELSE {}

\* C1: getPostData called with an identifier that getAllPostIds returns
\* succeeds, and the post it returns has that identifier as its id.
C1_ListedIdSucceeds ==
  (last.op = "getPostData" /\ last.arg \in ListedIds(fs))
    => (last.res.err = "none" /\ last.res.val["id"] = last.arg)

\* C2: in the list getSortedPostsData returns, no entry's date is less than
\* the date of the entry right after it (the comparison is that of `<`).
C2_SortedByDate ==
  IsListing =>
    \A i \in 1..(Len(last.res.val) - 1) :
       ~DateLess(last.res.val[i], last.res.val[i + 1])

\* the directory lists a file before a file with a later date, three
\* entries were sorted
C2_Witness ==
  /\ IsListing
  /\ Len(last.res.val) >= 3
  /\ \E i, j \in 1..Len(fs.posts) :
        /\ i < j
        /\ DateLess(fs.posts[i].file.data, fs.posts[j].file.data)
  /\ \E i \in 1..Len(last.res.val) : "date" \notin DOMAIN last.res.val[i]

\* C3: no entry of the list getSortedPostsData returns has a contentHtml
\* field, and every post getPostData returns has one, which holds the HTML
\* converted from the markdown body of the file.
C3_ContentHtmlOnlyInPost ==
  /\ IsListing =>
       \A i \in 1..Len(last.res.val) :
          "contentHtml" \notin DOMAIN last.res.val[i]
  /\ IsPost =>
       /\ "contentHtml" \in DOMAIN last.res.val
       /\ last.res.val["contentHtml"]
            = ToHtml(getPostDataRead(fs, last.arg).val.content)

\* C4: no two entries of the list getSortedPostsData returns, and no two
\* entries of the list getAllPostIds returns, have the same id.
C4_IdsUnique ==
  /\ IsListing =>
       \A i, j \in 1..Len(last.res.val) :
          i # j => last.res.val[i]["id"] # last.res.val[j]["id"]
  /\ IsIds =>
       \A i, j \in 1..Len(last.res.val) :
          i # j => last.res.val[i].params.id # last.res.val[j].params.id

\* the summary of the i-th file of the directory
SummaryOfFile(i) == PostSummary(fs, fs.posts[i].name).val

\* C5: when getSortedPostsData succeeds, its list has as many entries as
\* the directory has files, and the entries are the summaries of the files,
\* each file once: none left out, none twice.
C5_OneEntryPerFile ==
  IsListing =>
    /\ Len(last.res.val) = Len(fs.posts)
    /\ \A i \in 1..Len(fs.posts) :
          Cardinality({j \in 1..Len(last.res.val) :
                         last.res.val[j] = SummaryOfFile(i)})
            = Cardinality({j \in 1..Len(fs.posts) :
                             SummaryOfFile(j) = SummaryOfFile(i)})

\* three files were listed, and the sort moved an entry
C5_Witness ==
  /\ IsListing
  /\ Len(last.res.val) = 3
  /\ \E i \in 1..3 : last.res.val[i] # SummaryOfFile(i)

\* the posts directory has an entry named <id>.md
HoldsFile(id) ==
  /\ fs.dir
  /\ \E i \in 1..Len(fs.posts) : fs.posts[i].name = id \o DotMd

\* C6: getPostData called with an identifier for which the posts directory
\* holds no file <identifier>.md fails with the not-found error, and it
\* returns no post.
C6_MissingFileNotFound ==
  (last.op = "getPostData" /\ ~HoldsFile(last.arg))
    => (last.res.err = "ENOENT" /\ last.res.val = <<>>)

\* C8: getSortedPostsData is all or nothing.  When the front matter of a
\* file of the directory does not parse, the call fails with the parser's
\* error and returns no list; a list returned has an entry for every file
\* and every file's front matter parsed.
C8_AllOrNothing ==
  last.op = "getSortedPostsData" =>
    /\ (\E i \in 1..Len(fs.posts) : fs.posts[i].file.fm = "bad")
         => (last.res.err = "YAMLException" /\ last.res.val = <<>>)
    /\ last.res.err = "none" =>
         /\ Len(last.res.val) = Len(fs.posts)
         /\ \A i \in 1..Len(fs.posts) : fs.posts[i].file.fm = "ok"

\* the call failed on a directory that also holds files that parse
C8_Witness ==
  /\ last.op = "getSortedPostsData"
  /\ last.res.err = "YAMLException"
  /\ Len(fs.posts) = 3
  /\ \E i, j \in 1..Len(fs.posts) :
        i < j /\ fs.posts[i].file.fm = "ok" /\ fs.posts[j].file.fm = "bad"

\* a file name without its extension: what precedes its last "."
StripExt(s) ==
  LET dots == {i \in 2..Len(s) : s[i] = "."}
  IN  IF dots = {} THEN s
      ELSE SubSeq(s, 1, (CHOOSE i \in dots : \A j \in dots : j <= i) - 1)

\* C9 as claimed: getAllPostIds returns one entry per file of the
\* directory, and the id of the entry is the file's name with its file
\* extension stripped.
C9_IdIsNameWithoutExtension ==
  IsIds =>
    /\ Len(last.res.val) = Len(fs.posts)
    /\ \A i \in 1..Len(fs.posts) :
          last.res.val[i].params.id = StripExt(fs.posts[i].name)

\* C9 amended: getAllPostIds returns one entry { params: { id } } per file
\* of the directory, in directory order, and nothing else; the id is the
\* file's name without its ending ".md", and the whole name when the name
\* does not end in ".md"; for a directory of a.md and b.md the ids are
\* exactly a and b.
C9_IdIsNameWithoutMd ==
  IsIds =>
    /\ Len(last.res.val) = Len(fs.posts)
    /\ \A i \in 1..Len(fs.posts) :
          LET e == last.res.val[i]
              name == fs.posts[i].name
          IN  /\ DOMAIN e = {"params"}
              /\ DOMAIN e.params = {"id"}
              /\ \/ name = e.params.id \o <<".", "m", "d">>
                 \/ /\ name = e.params.id
                    /\ \/ Len(name) < 3
                       \/ name[Len(name) - 2] # "."
                       \/ name[Len(name) - 1] # "m"
                       \/ name[Len(name)] # "d"
    /\ {fs.posts[i].name : i \in 1..Len(fs.posts)}
         = {<<"a", ".", "m", "d">>, <<"b", ".", "m", "d">>}
       => {last.res.val[i].params.id : i \in 1..Len(last.res.val)}
            = {<<"a">>, <<"b">>}

\* the ids of a directory that holds a file named c.txt were returned
C9_Witness ==
  /\ IsIds
  /\ Len(last.res.val) >= 2
  /\ \E i \in 1..Len(fs.posts) : fs.posts[i].name = <<"c", ".", "t", "x", "t">>
  /\ \E i \in 1..Len(fs.posts) : fs.posts[i].name = <<"a", ".", "m", "d">>

\* the file getPostData(id) reads is a file of the posts directory
ReadsInPosts(id) ==
  LET fullPath == PathJoin(postsDirectory, id \o DotMd)
  IN  /\ Len(fullPath) > Len(postsDirectory)
      /\ SubSeq(fullPath, 1, Len(postsDirectory)) = postsDirectory

\* C10: getPostData returns a post only for an identifier that
\* getAllPostIds returns; for every other identifier, those with "../"
\* included, it fails, and it reads no file outside the posts directory.
C10_OnlyListedIds ==
  /\ (last.op = "getPostData" /\ last.arg \notin ListedIds(fs))
       => last.res.err # "none"
  /\ IsPost => ReadsInPosts(last.arg)

\* a step of one of the three query operations
QueryStep ==
  \/ GetSortedPostsData
  \/ GetAllPostIds
  \/ \E id \in ArgIds : GetPostDataCall(id)
  \/ \E call \in BagToSet(pend) : GetPostDataResume(call)

Alone(f, op, arg) ==
  CASE op = "getSortedPostsData" -> getSortedPostsData(f)
    [] op = "getAllPostIds" -> getAllPostIds(f)
    [] op = "getPostData" -> getPostDataAlone(f, arg)

\* C11: whatever runs between the call of a query and its return (other
\* getPostData calls suspended at their await, getSortedPostsData and
\* getAllPostIds calls, files written and removed), the query returns what
\* it would return run alone on the files of the moment it was called.
C11_NoInterference ==
  [][/\ \A call \in BagToSet(pend) :
           pend' = pend (-) SetToBag({call})
             => /\ last'.op = "getPostData"
                /\ last'.arg = call.id
                /\ last'.res = call.alone
     /\ (pend' = pend /\ fs' = fs /\ last' # last)
          => last'.res = Alone(fs, last'.op, last'.arg)]_vars

\* a getPostData call returned its post after the file it had read was
\* changed, while another call was suspended
C11_Witness ==
  /\ last.op = "getPostData"
  /\ last.res.err = "none"
  /\ ~last.clean
  /\ pend # EmptyBag

\* C12: on a posts directory where getSortedPostsData and getAllPostIds
\* both succeed, the ids of the entries of the one are the ids of the
\* entries of the other.
C12_EnumerationsAgree ==
  (IsListing /\ getAllPostIds(fs).err = "none")
    => {last.res.val[i]["id"] : i \in 1..Len(last.res.val)} = ListedIds(fs)

====
